---- MODULE Spec2Model ----
(***************************************************************************)
(* Model of src/server.py (ChatVLT backend): the calendar availability     *)
(* engine (get_calendar_events, compute_free_windows,                      *)
(* get_free_windows_text) and the site crawler (crawl_site).               *)
(*                                                                         *)
(* Time is counted in minutes from 00:00 of a reference date.  A datetime  *)
(* that carries the business timezone is represented by its wall-clock     *)
(* minute count in that zone: all datetimes compute_free_windows compares  *)
(* carry the same tzinfo object, and Python compares such datetimes by     *)
(* their wall-clock fields.  The zone has a fixed UTC offset (tzOffset).   *)
(***************************************************************************)
EXTENDS Integers, Sequences, FiniteSets, TLC

VARIABLES
    \* ---- the persisted site index and its callers
    snapshot,        \* the file site_index_<business_id>.json
    runs,            \* the last two runs of build_site_index, latest last
    found,           \* the latest call of find_relevant_pages
    \* ---- build_site_index running in several worker processes
    idxPc,           \* per process: "idle" | "open" | "write" | "taken" | "built"
    observed,        \* per process: what its run found at the snapshot path
    index,           \* per process: the local list "index"
    woff,            \* per process: file position of its open snapshot file
    returned,        \* per process: what its run returned
    built,           \* every list that was in a snapshot or built by a run
    \* ---- environment of the availability engine
    nowUtc,          \* the clock, datetime.now(timezone.utc), in minutes
    tzOffset,        \* UTC offset of ZoneInfo(BUSINESS_TIMEZONE), in minutes
    calendarId,      \* GCAL_CALENDAR_ID is set
    serviceAccount,  \* GOOGLE_SERVICE_ACCOUNT_JSON yields a service
    items,           \* "items" of the calendar's events().list() response
    \* ---- one call of get_free_windows_text
    calPc,           \* "idle" | "done"
    days,            \* the argument of the call
    now_tz,          \* now_tz of compute_free_windows
    busy_events,     \* what get_calendar_events returned
    free_windows,    \* what compute_free_windows returned
    avail_text,      \* what get_free_windows_text returned
    gcal_requests,   \* the requests the call sent to the Calendar API
    \* ---- environment of the crawler
    site,            \* the web site: response of every path of the root's host
    max_pages,       \* int(os.getenv("MAX_PAGES_PER_SITE", "40"))
    \* ---- one call of crawl_site
    crawlPc,         \* "idle" | "loop" | "done"
    visited,         \* set of URLs
    to_visit,        \* the work queue
    pages,           \* the page records collected
    fetched,         \* history: every URL handed to requests.get
    fetch_log,       \* history: the calls of requests.get, in order
    enqueued         \* history: every URL put on to_visit, in order

calVars == <<nowUtc, tzOffset, calendarId, serviceAccount, items,
             calPc, days, now_tz, busy_events, free_windows, avail_text,
             gcal_requests>>

crawlVars == <<site, max_pages, crawlPc, visited, to_visit, pages, fetched,
               fetch_log, enqueued>>

idxVars == <<snapshot, runs, found, idxPc, observed, index, woff, returned, built>>

vars == <<calVars, crawlVars, idxVars>>

----------------------------------------------------------------------------
(* Bounds of the model *)

MaxEvents == 2      \* events in one list response
MaxDays == 2        \* largest "days" argument
NumPaths == 4       \* paths 0 .. NumPaths-1 of the root's host answer requests

(* Program constants *)

WORK_START_HOUR == 9
WORK_END_HOUR == 17
MinutesPerHour == 60
MinutesPerDay == 1440

HM(h, m) == h * MinutesPerHour + m
DateOf(t) == t \div MinutesPerDay
MinuteOfDay(t) == t % MinutesPerDay

----------------------------------------------------------------------------
(* Raw timestamps as the calendar API returns them in start/end.           *)
(*   form "date"     : "2026-11-03"            (all-day, no "T")           *)
(*   form "datetime" : "2026-11-03T10:00:00" with or without an offset     *)
(*   form "garbage"  : a string datetime.fromisoformat rejects             *)
(*   form "missing"  : neither dateTime nor date present                   *)

DateTs(day) == [form |-> "date", wall |-> day * MinutesPerDay, hasZone |-> FALSE, zone |-> 0]
OffsetTs(wall, zone) == [form |-> "datetime", wall |-> wall, hasZone |-> TRUE, zone |-> zone]
NaiveTs(wall) == [form |-> "datetime", wall |-> wall, hasZone |-> FALSE, zone |-> 0]
GarbageTs == [form |-> "garbage", wall |-> 0, hasZone |-> FALSE, zone |-> 0]
MissingTs == [form |-> "missing", wall |-> 0, hasZone |-> FALSE, zone |-> 0]

RawEvent(summary, s, e) == [summary |-> summary, start |-> s, end |-> e]

Sofia == 120   \* winter offset of the default zone Europe/Sofia

\* Timed events written with the +02:00 offset; d1 is the next day.
TimedEvents ==
    { RawEvent("10-11",  OffsetTs(HM(10, 0), Sofia), OffsetTs(HM(11, 0), Sofia)),
      RawEvent("13-14",  OffsetTs(HM(13, 0), Sofia), OffsetTs(HM(14, 0), Sofia)),
      RawEvent("08-10",  OffsetTs(HM(8, 0), Sofia),  OffsetTs(HM(10, 0), Sofia)),
      RawEvent("10-14",  OffsetTs(HM(10, 0), Sofia), OffsetTs(HM(14, 0), Sofia)),
      RawEvent("11-14",  OffsetTs(HM(11, 0), Sofia), OffsetTs(HM(14, 0), Sofia)),
      RawEvent("16-18",  OffsetTs(HM(16, 0), Sofia), OffsetTs(HM(18, 0), Sofia)),
      RawEvent("07-08",  OffsetTs(HM(7, 0), Sofia),  OffsetTs(HM(8, 0), Sofia)),
      RawEvent("16-d1.10", OffsetTs(HM(16, 0), Sofia), OffsetTs(MinutesPerDay + HM(10, 0), Sofia)),
      RawEvent("d1.10-11", OffsetTs(MinutesPerDay + HM(10, 0), Sofia),
                           OffsetTs(MinutesPerDay + HM(11, 0), Sofia)),
      RawEvent("11-11",  OffsetTs(HM(11, 0), Sofia), OffsetTs(HM(11, 0), Sofia)),
      RawEvent("08Z-09Z", OffsetTs(HM(8, 0), 0), OffsetTs(HM(9, 0), 0)) }

AllDayEvents ==
    { RawEvent("day0", DateTs(0), DateTs(1)),
      RawEvent("day1", DateTs(1), DateTs(2)) }

NaiveEvents ==
    { RawEvent("naive 10-11", NaiveTs(HM(10, 0)), NaiveTs(HM(11, 0))) }

BrokenEvents ==
    { RawEvent("no end", OffsetTs(HM(12, 0), Sofia), MissingTs),
      RawEvent("garbage", OffsetTs(HM(12, 0), Sofia), GarbageTs) }

RawEvents == TimedEvents \cup AllDayEvents \cup NaiveEvents \cup BrokenEvents

RECURSIVE SeqsUpTo(_, _)
SeqsUpTo(S, n) ==
    IF n = 0 THEN { <<>> }
    ELSE LET shorter == SeqsUpTo(S, n - 1)
         IN shorter \cup { Append(q, x) : q \in shorter, x \in S }

TzOffsets == { 0, Sofia }
NowTimes == { HM(6, 0), HM(10, 30), HM(14, 30), HM(15, 0), HM(16, 0) }

----------------------------------------------------------------------------
(* get_calendar_events, lines 225-253: conversion of one item *)

Parses(ts) == ts.form \in { "date", "datetime" }

\* datetime.fromisoformat(raw).replace(tzinfo=tz): the wall clock is kept
ReplaceTz(ts) == ts.wall

\* naive -> replace(tzinfo=utc); then astimezone(tz)
\* variant: a zone-less dateTime taken as business-local time
AsTimezoneNaiveLocal(ts, off) ==
    IF ts.hasZone THEN ts.wall - ts.zone + off ELSE ts.wall

AsTimezone(ts, off) ==
    IF ts.hasZone THEN ts.wall - ts.zone + off ELSE ts.wall + off

EventConverts(ev) ==
    /\ ev.start.form # "missing"
    /\ ev.end.form # "missing"
    /\ Parses(ev.start)
    /\ Parses(ev.end)

ConvertEvent(ev, off) ==
    IF ev.start.form = "date"
    THEN [start |-> ReplaceTz(ev.start), end |-> ReplaceTz(ev.end), summary |-> ev.summary]
    ELSE [start |-> AsTimezone(ev.start, off), end |-> AsTimezone(ev.end, off),
          summary |-> ev.summary]

RECURSIVE ConvertItems(_, _)
ConvertItems(its, off) ==
    IF its = <<>> THEN <<>>
    ELSE LET ev == Head(its)
             rest == ConvertItems(Tail(its), off)
         IN IF EventConverts(ev) THEN <<ConvertEvent(ev, off)>> \o rest ELSE rest

\* lines 201-216: the one events().list() request of get_calendar_events,
\* from now to now + days; none when the calendar is not configured
\* variant: one request per day of the horizon
CalendarRequestsPerDay(n, listFails) ==
    IF ~calendarId \/ ~serviceAccount THEN <<>>
    ELSE [ i \in 1..n |-> [method |-> "list",
                            timeMin |-> nowUtc + (i - 1) * MinutesPerDay,
                            timeMax |-> nowUtc + i * MinutesPerDay,
                            raised |-> listFails] ]

CalendarRequests(n, listFails) ==
    IF ~calendarId THEN <<>>
    ELSE IF ~serviceAccount THEN <<>>
    ELSE << [method |-> "list",
             timeMin |-> nowUtc,
             timeMax |-> nowUtc + n * MinutesPerDay,
             raised |-> listFails] >>

\* variant: the failure of the list request is not noticed
GetCalendarEventsIgnoreFailure(listFails) ==
    IF ~calendarId \/ ~serviceAccount THEN <<>> ELSE ConvertItems(items, tzOffset)

\* get_calendar_events(days): listFails is the list request raising
GetCalendarEvents(listFails) ==
    IF ~calendarId THEN <<>>
    ELSE IF ~serviceAccount THEN <<>>
    ELSE IF listFails THEN <<>>
    ELSE ConvertItems(items, tzOffset)

----------------------------------------------------------------------------
(* compute_free_windows *)

DayStartOf(day) == day * MinutesPerDay + HM(WORK_START_HOUR, 0)
DayEndOf(day) == day * MinutesPerDay + HM(WORK_END_HOUR, 0)

\* lines 281-282
\* variant: day 0 not clipped at now
ClippedDayStartNoClip(i, now, day) == DayStartOf(day)

ClippedDayStart(i, now, day) ==
    IF i = 0 /\ now > DayStartOf(day) THEN now ELSE DayStartOf(day)

\* lines 284-294
RECURSIVE TodaysBusy(_, _, _)
TodaysBusy(busy, ds, de) ==
    IF busy = <<>> THEN <<>>
    ELSE LET ev == Head(busy)
             rest == TodaysBusy(Tail(busy), ds, de)
             s == IF ev.start < ds THEN ds ELSE ev.start
             e == IF ev.end > de THEN de ELSE ev.end
         IN IF ev.end <= ds \/ ev.start >= de THEN rest
            ELSE << <<s, e>> >> \o rest

\* line 296: list.sort(key=start) is stable
RECURSIVE InsertByStart(_, _)
InsertByStart(x, sorted) ==
    IF sorted = <<>> THEN <<x>>
    ELSE IF x[1] < Head(sorted)[1] THEN <<x>> \o sorted
    ELSE <<Head(sorted)>> \o InsertByStart(x, Tail(sorted))

RECURSIVE SortByStart(_)
\* variant: the sort left out
SortByStartUnsorted(q) == q

SortByStart(q) ==
    IF q = <<>> THEN <<>>
    ELSE InsertByStart(q[Len(q)], SortByStart(SubSeq(q, 1, Len(q) - 1)))

\* lines 298-303
RECURSIVE Sweep(_, _)
\* variant: the pointer set to every interval's end (no max)
SweepNoMax(todays, current) ==
    IF todays = <<>> THEN [windows |-> <<>>, current |-> current]
    ELSE LET s == Head(todays)[1]
             e == Head(todays)[2]
             emitted == IF s > current THEN << [start |-> current, end |-> s] >> ELSE <<>>
             rest == Sweep(Tail(todays), e)
         IN [windows |-> emitted \o rest.windows, current |-> rest.current]

\* variant: a window is emitted when s >= current
SweepEmitsEmpty(todays, current) ==
    IF todays = <<>> THEN [windows |-> <<>>, current |-> current]
    ELSE LET s == Head(todays)[1]
             e == Head(todays)[2]
             emitted == IF s >= current THEN << [start |-> current, end |-> s] >> ELSE <<>>
             next == IF e > current THEN e ELSE current
             rest == Sweep(Tail(todays), next)
         IN [windows |-> emitted \o rest.windows, current |-> rest.current]

\* variant: windows inserted at the front of the list
SweepPrepend(todays, current) ==
    IF todays = <<>> THEN [windows |-> <<>>, current |-> current]
    ELSE LET s == Head(todays)[1]
             e == Head(todays)[2]
             emitted == IF s > current THEN << [start |-> current, end |-> s] >> ELSE <<>>
             next == IF e > current THEN e ELSE current
             rest == Sweep(Tail(todays), next)
         IN [windows |-> rest.windows \o emitted, current |-> rest.current]

Sweep(todays, current) ==
    IF todays = <<>> THEN [windows |-> <<>>, current |-> current]
    ELSE LET s == Head(todays)[1]
             e == Head(todays)[2]
             emitted == IF s > current THEN << [start |-> current, end |-> s] >> ELSE <<>>
             next == IF e > current THEN e ELSE current
             rest == Sweep(Tail(todays), next)
         IN [windows |-> emitted \o rest.windows, current |-> rest.current]

\* one iteration of the loop of line 273
DayWindows(i, now, busy) ==
    LET day == DateOf(now + i * MinutesPerDay)
        de == DayEndOf(day)
        ds == ClippedDayStart(i, now, day)
        swept == Sweep(SortByStart(TodaysBusy(busy, ds, de)), ds)
    IN IF de <= now THEN <<>>
       ELSE swept.windows \o
            (IF swept.current < de THEN << [start |-> swept.current, end |-> de] >> ELSE <<>>)

RECURSIVE WindowsFrom(_, _, _, _)
\* variant: range(days + 1)
WindowsFromOneMore(i, n, now, busy) ==
    IF i > n THEN <<>>
    ELSE DayWindows(i, now, busy) \o WindowsFrom(i + 1, n, now, busy)

WindowsFrom(i, n, now, busy) ==
    IF i >= n THEN <<>>
    ELSE DayWindows(i, now, busy) \o WindowsFrom(i + 1, n, now, busy)

ComputeFreeWindows(n, now, busy) == WindowsFrom(0, n, now, busy)

----------------------------------------------------------------------------
(* get_free_windows_text, lines 322-345: the text as its lines *)

TimeRange(w) == <<MinuteOfDay(w.start), MinuteOfDay(w.end)>>

RECURSIVE RenderLines(_, _)
RenderLines(wins, lines) ==
    IF wins = <<>> THEN lines
    ELSE LET w == Head(wins)
             n == Len(lines)
         IN IF n > 0 /\ lines[n].date = DateOf(w.start)
            THEN RenderLines(Tail(wins),
                     [lines EXCEPT ![n].ranges = Append(@, TimeRange(w))])
            ELSE RenderLines(Tail(wins),
                     Append(lines, [date |-> DateOf(w.start), ranges |-> <<TimeRange(w)>>]))

NoText == [kind |-> "none", days |-> 0, lines |-> <<>>]

FreeWindowsText(n, wins) ==
    IF wins = <<>> THEN [kind |-> "no free windows", days |-> 0, lines |-> <<>>]
    ELSE [kind |-> "availability", days |-> n, lines |-> RenderLines(wins, <<>>)]

----------------------------------------------------------------------------
(* crawl_site.  A URL is [netloc, path, frag]; path -1 stands for a path   *)
(* that ends in one of the extensions of line 662 (".pdf").  An href is    *)
(*   kind "relative"  : a path, resolved against the page's URL            *)
(*   kind "absolute"  : carries its own netloc ("" for mailto: and alike)  *)
(*   kind "empty"     : blank after strip()                                *)
(*   kind "malformed" : urljoin raises ValueError on it                    *)

DEFAULT_MAX_PAGES == 40

SiteHost == "vltdatasolutions.com"
WwwHost == "www.vltdatasolutions.com"
OtherHost == "partner.example"

Url(netloc, path) == [netloc |-> netloc, path |-> path, frag |-> FALSE]
base_url == Url(SiteHost, 0)

Rel(path) == [kind |-> "relative", netloc |-> "", path |-> path, frag |-> FALSE]
Abs(netloc, path) == [kind |-> "absolute", netloc |-> netloc, path |-> path, frag |-> FALSE]
WithFragment(href) == [href EXCEPT !.frag = TRUE]
EmptyHref == [kind |-> "empty", netloc |-> "", path |-> 0, frag |-> FALSE]
MalformedHref == [kind |-> "malformed", netloc |-> "", path |-> 0, frag |-> FALSE]
PdfPath == 0 - 1

\* the responses a path of the site may give
ErrorResponse == [kind |-> "error", title |-> "", text |-> "", links |-> <<>>]
NonHtmlResponse == [kind |-> "nonhtml", title |-> "", text |-> "", links |-> <<>>]
Html(title, text, links) == [kind |-> "html", title |-> title, text |-> text, links |-> links]

RECURSIVE RelLinks(_, _)
RelLinks(from, to) ==
    IF from > to THEN <<>> ELSE <<Rel(from)>> \o RelLinks(from + 1, to)

\* links to every other path of the site and one external link
HubLinks == RelLinks(1, NumPaths - 1) \o <<Abs(OtherHost, 0)>>
\* a link back to the root with a fragment, a repeated link, a document,
\* a blank href, a mailto: link and the www. host
BackLinks == << WithFragment(Abs(SiteHost, 0)), Rel(NumPaths - 1),
                WithFragment(Rel(NumPaths - 1)), Rel(PdfPath), EmptyHref,
                Abs("", 0), Abs(WwwHost, 1) >>
\* a malformed href between two links
BrokenLinks == << Rel(2), MalformedHref, Rel(1) >>

Responses ==
    { ErrorResponse,
      NonHtmlResponse,
      Html("", "body", <<>>),
      Html("Hub", "body", HubLinks),
      Html("Scripts only", "", HubLinks),
      Html("Back", "body", BackLinks),
      Html("Broken", "body", BrokenLinks) }

SitePaths == 0..(NumPaths - 1)
Sites == [SitePaths -> Responses]
MaxPagesChoices == SitePaths \cup { DEFAULT_MAX_PAGES }

\* requests.get(url): what the URL answers
Fetch(url) ==
    IF url.netloc = SiteHost /\ url.path \in SitePaths THEN site[url.path]
    ELSE IF url.netloc = SiteHost THEN NonHtmlResponse
    ELSE Html("Elsewhere", "body", <<Rel(1)>>)

\* urljoin(url, href)
UrlJoin(url, href) ==
    IF href.kind = "relative"
    THEN [netloc |-> url.netloc, path |-> href.path, frag |-> href.frag]
    ELSE [netloc |-> href.netloc, path |-> href.path, frag |-> href.frag]

\* lines 654-655
StripFragment(full) == [full EXCEPT !.frag = FALSE]

\* variant: any URL passes
IsSameDomainAlways(base, other) == TRUE

\* _is_same_domain
IsSameDomain(base, other) == base.netloc = other.netloc

\* lines 660-664
EndsWithBinaryExt(full) == full.path = PdfPath

\* variant: the queue is not consulted
InSeqNever(x, q) == FALSE

\* full in to_visit, line 656
InSeq(x, q) == \E k \in 1..Len(q) : q[k] = x

\* lines 649-665: the link loop over one page; an exception ends it, what
\* was appended before stays on the queue
RECURSIVE ProcessLinks(_, _, _, _)
ProcessLinks(links, url, seen, queue) ==
    IF links = <<>> THEN queue
    ELSE LET href == Head(links)
             full == StripFragment(UrlJoin(url, href))
         IN IF href.kind = "malformed" THEN queue
            ELSE IF href.kind = "empty" THEN ProcessLinks(Tail(links), url, seen, queue)
            ELSE IF full \in seen \/ InSeq(full, queue)
                 THEN ProcessLinks(Tail(links), url, seen, queue)
            ELSE IF ~IsSameDomain(base_url, full)
                 THEN ProcessLinks(Tail(links), url, seen, queue)
            ELSE IF EndsWithBinaryExt(full)
                 THEN ProcessLinks(Tail(links), url, seen, queue)
            ELSE ProcessLinks(Tail(links), url, seen, Append(queue, full))

\* variant: to_visit.pop() instead of to_visit.pop(0)
DequeueLast(q) == [url |-> q[Len(q)], rest |-> SubSeq(q, 1, Len(q) - 1)]

\* line 628
Dequeue(q) == [url |-> Head(q), rest |-> Tail(q)]

\* variant: the cap counts the URLs visited instead of the records collected
LoopContinuesCountVisited == to_visit # <<>> /\ Cardinality(visited) < max_pages

\* variant: len(pages) <= max_pages
LoopContinuesOneMore == to_visit # <<>> /\ Len(pages) <= max_pages

\* line 627
LoopContinues == to_visit # <<>> /\ Len(pages) < max_pages

\* line 639 and line 647
PageRecord(url, resp) ==
    [url |-> url, title |-> IF resp.title = "" THEN url ELSE resp.title, text |-> resp.text]

\* the worker processes that serve requests
Procs == {1, 2}

NoFile == [exists |-> FALSE, readable |-> TRUE, text |-> <<>>]
NoFind == [called |-> FALSE, query |-> "", top_k |-> 0, q_emb |-> <<>>, index |-> <<>>,
           pages |-> <<>>, reads |-> 0, crawls |-> 0, embeds |-> 0, writes |-> 0,
           wrote |-> FALSE, file |-> NoFile]

WorkersAtRest ==
    /\ idxPc = [p \in Procs |-> "idle"]
    /\ observed = [p \in Procs |-> "nothing"]
    /\ index = [p \in Procs |-> <<>>]
    /\ woff = [p \in Procs |-> 0]
    /\ returned = [p \in Procs |-> <<>>]
    /\ built = {}

IndexAtRest ==
    /\ snapshot = NoFile
    /\ runs = <<>>
    /\ found = NoFind
    /\ WorkersAtRest

CrawlerAtRest ==
    /\ site = [p \in SitePaths |-> ErrorResponse]
    /\ max_pages = 0
    /\ crawlPc = "idle"
    /\ visited = {}
    /\ to_visit = <<>>
    /\ pages = <<>>
    /\ fetched = {}
    /\ fetch_log = <<>>
    /\ enqueued = <<>>

InitCrawl ==
    /\ site \in Sites
    /\ max_pages \in MaxPagesChoices
    /\ crawlPc = "idle"
    /\ visited = {}
    /\ to_visit = <<>>
    /\ pages = <<>>
    /\ fetched = {}
    /\ fetch_log = <<>>
    /\ enqueued = <<>>
    /\ nowUtc = 0
    /\ tzOffset = 0
    /\ calendarId = FALSE
    /\ serviceAccount = FALSE
    /\ items = <<>>
    /\ calPc = "idle"
    /\ days = 0
    /\ now_tz = 0
    /\ busy_events = <<>>
    /\ free_windows = <<>>
    /\ avail_text = NoText
    /\ gcal_requests = <<>>
    /\ IndexAtRest

\* lines 621-623
CrawlStart ==
    /\ crawlPc = "idle"
    /\ visited' = {}
    /\ to_visit' = <<base_url>>
    /\ pages' = <<>>
    /\ enqueued' = <<base_url>>
    /\ crawlPc' = "loop"
    /\ UNCHANGED <<site, max_pages, fetched, fetch_log>>
    /\ UNCHANGED calVars
    /\ UNCHANGED idxVars

\* one pass of the while loop, lines 627-667
CrawlIteration ==
    /\ crawlPc = "loop"
    /\ LoopContinues
    /\ LET url == Dequeue(to_visit).url
           rest == Dequeue(to_visit).rest
           resp == Fetch(url)
           seen == visited \cup {url}
           queue == IF resp.kind = "html" THEN ProcessLinks(resp.links, url, seen, rest)
                    ELSE rest
       IN IF url \in visited
          THEN /\ to_visit' = rest
               /\ UNCHANGED <<visited, pages, fetched, fetch_log, enqueued>>
          ELSE /\ visited' = seen
               /\ fetched' = fetched \cup {url}
               /\ fetch_log' = Append(fetch_log, url)
               /\ to_visit' = queue
               /\ enqueued' = enqueued \o SubSeq(queue, Len(rest) + 1, Len(queue))
               /\ pages' = IF resp.kind = "html" /\ resp.text # ""
                           THEN Append(pages, PageRecord(url, resp))
                           ELSE pages
    /\ UNCHANGED <<site, max_pages, crawlPc>>
    /\ UNCHANGED calVars
    /\ UNCHANGED idxVars

\* line 669
CrawlReturn ==
    /\ crawlPc = "loop"
    /\ ~LoopContinues
    /\ crawlPc' = "done"
    /\ UNCHANGED <<site, max_pages, visited, to_visit, pages, fetched, fetch_log, enqueued>>
    /\ UNCHANGED calVars
    /\ UNCHANGED idxVars

NextCrawl ==
    \/ CrawlStart
    \/ CrawlIteration
    \/ CrawlReturn

SpecCrawl == InitCrawl /\ [][NextCrawl]_vars

\* the loop of lines 627-667 keeps running: a request returns or times out
\* (timeout=10, line 634), nothing else in an iteration waits
\* the crawl with the cap at one record and at its default
InitCrawlFair == InitCrawl /\ max_pages \in { 1, DEFAULT_MAX_PAGES }
SpecCrawlFair == InitCrawlFair /\ [][NextCrawl]_vars /\ WF_vars(NextCrawl)

----------------------------------------------------------------------------
(* The availability engine as a state machine *)

InitCal ==
    /\ nowUtc \in NowTimes
    /\ tzOffset \in TzOffsets
    /\ calendarId \in BOOLEAN
    /\ serviceAccount \in BOOLEAN
    /\ items \in SeqsUpTo(RawEvents, MaxEvents)
    /\ (~calendarId \/ ~serviceAccount) => items = <<>>
    /\ calPc = "idle"
    /\ days = 0
    /\ now_tz = 0
    /\ busy_events = <<>>
    /\ free_windows = <<>>
    /\ avail_text = NoText
    /\ gcal_requests = <<>>
    /\ CrawlerAtRest
    /\ IndexAtRest

\* get_free_windows_text(days) called by the chat handler
GetFreeWindowsText(n, listFails) ==
    /\ calPc = "idle"
    /\ LET now == nowUtc + tzOffset
           busy == GetCalendarEvents(listFails)
           wins == ComputeFreeWindows(n, now, busy)
       IN /\ days' = n
          /\ now_tz' = now
          /\ busy_events' = busy
          /\ free_windows' = wins
          /\ avail_text' = FreeWindowsText(n, wins)
          /\ gcal_requests' = CalendarRequests(n, listFails)
    /\ calPc' = "done"
    /\ UNCHANGED <<nowUtc, tzOffset, calendarId, serviceAccount, items>>
    /\ UNCHANGED crawlVars
    /\ UNCHANGED idxVars

\* the handler has used the text; the next request starts afresh
Respond ==
    /\ calPc = "done"
    /\ calPc' = "idle"
    /\ days' = 0
    /\ now_tz' = 0
    /\ busy_events' = <<>>
    /\ free_windows' = <<>>
    /\ avail_text' = NoText
    /\ gcal_requests' = <<>>
    /\ UNCHANGED <<nowUtc, tzOffset, calendarId, serviceAccount, items>>
    /\ UNCHANGED crawlVars
    /\ UNCHANGED idxVars

\* time passes between requests
ClockAdvance ==
    /\ calPc = "idle"
    /\ \E t \in NowTimes : t > nowUtc /\ nowUtc' = t
    /\ UNCHANGED <<tzOffset, calendarId, serviceAccount, items,
                   calPc, days, now_tz, busy_events, free_windows, avail_text,
                   gcal_requests>>
    /\ UNCHANGED crawlVars
    /\ UNCHANGED idxVars

NextCal ==
    \/ \E n \in 0..MaxDays, f \in BOOLEAN : GetFreeWindowsText(n, f)
    \/ Respond
    \/ ClockAdvance

SpecCal == InitCal /\ [][NextCal]_vars

----------------------------------------------------------------------------
(* The site index.  The snapshot file is [exists, readable, text]; its    *)
(* text is a sequence of units of the JSON document that json.dump       *)
(* writes: a record with an empty vector is one unit ("item"), a record   *)
(* with a vector is two ("head", then "tail" with the vector), and the    *)
(* closing bracket of the list is the unit "end".                         *)

MaxIndex == 3       \* records in a snapshot found on disk
MaxTopK == 3        \* largest top_k argument

\* crawl_site as a function of the site: the loop of lines 627-667 run to
\* its end from the state of lines 621-623
RECURSIVE CrawlLoop(_, _, _)
CrawlLoop(vis, queue, pgs) ==
    IF ~(queue # <<>> /\ Len(pgs) < max_pages) THEN pgs
    ELSE LET url == Dequeue(queue).url
             rest == Dequeue(queue).rest
             resp == Fetch(url)
             seen == vis \cup {url}
         IN IF url \in vis THEN CrawlLoop(vis, rest, pgs)
            ELSE CrawlLoop(seen,
                           IF resp.kind = "html"
                           THEN ProcessLinks(resp.links, url, seen, rest)
                           ELSE rest,
                           IF resp.kind = "html" /\ resp.text # ""
                           THEN Append(pgs, PageRecord(url, resp))
                           ELSE pgs)

CrawlSite == CrawlLoop({}, <<base_url>>, <<>>)

\* the vector the embedding model gives for a text (lines 676-680)
Embedding(text) ==
    IF text = "body" THEN <<1, 0>>
    ELSE IF text = "pricing" THEN <<1, 0>>
    ELSE IF text = "contact" THEN <<1, 1>>
    ELSE <<0, 0>>

\* embed_text: fails is the embeddings request raising
EmbedText(text, fails) ==
    IF text = "" THEN <<>>
    ELSE IF fails THEN <<>>
    ELSE Embedding(text)

\* variant: a page whose embedding request raises is left out
EmbedPagesDropFailed(pgs, failing) ==
    SelectSeq([ k \in 1..Len(pgs) |->
                 [url |-> pgs[k].url, title |-> pgs[k].title, text |-> pgs[k].text,
                  embedding |-> EmbedText(pgs[k].text, k \in failing)] ],
              LAMBDA r : r.embedding # <<>>)

\* lines 698-708: failing is the set of positions whose request raises
EmbedPages(pgs, failing) ==
    [ k \in 1..Len(pgs) |->
        [url |-> pgs[k].url, title |-> pgs[k].title, text |-> pgs[k].text,
         embedding |-> EmbedText(pgs[k].text, k \in failing)] ]

EndOfList == [tok |-> "end"]
NotAList == [tok |-> "object"]
ItemUnit(r) == [tok |-> "item", url |-> r.url, title |-> r.title, text |-> r.text]
HeadUnit(r) == [tok |-> "head", url |-> r.url, title |-> r.title, text |-> r.text]
TailUnit(v) == [tok |-> "tail", embedding |-> v]

RECURSIVE DumpItems(_)
DumpItems(list) ==
    IF list = <<>> THEN <<>>
    ELSE LET r == Head(list)
         IN (IF r.embedding = <<>> THEN <<ItemUnit(r)>>
             ELSE <<HeadUnit(r), TailUnit(r.embedding)>>) \o DumpItems(Tail(list))

\* json.dump(index, f), line 712
JsonDump(list) == DumpItems(list) \o <<EndOfList>>

ParseError == [ok |-> FALSE, list |-> FALSE, data |-> <<>>]

\* the records of a list document up to its closing bracket
RECURSIVE LoadItems(_)
LoadItems(text) ==
    IF text = <<>> THEN ParseError
    ELSE LET u == Head(text)
         IN IF u.tok = "end"
            THEN IF Len(text) = 1 THEN [ok |-> TRUE, list |-> TRUE, data |-> <<>>]
                 ELSE ParseError
            ELSE IF u.tok = "item"
            THEN LET rest == LoadItems(Tail(text))
                 IN IF rest.ok
                    THEN [rest EXCEPT !.data =
                            <<[url |-> u.url, title |-> u.title, text |-> u.text,
                               embedding |-> <<>>]>> \o @]
                    ELSE ParseError
            ELSE IF u.tok = "head" /\ Len(text) >= 2 /\ text[2].tok = "tail"
            THEN LET rest == LoadItems(Tail(Tail(text)))
                 IN IF rest.ok
                    THEN [rest EXCEPT !.data =
                            <<[url |-> u.url, title |-> u.title, text |-> u.text,
                               embedding |-> text[2].embedding]>> \o @]
                    ELSE ParseError
            ELSE ParseError

\* json.load(f), line 691
JsonLoad(text) ==
    IF text = <<NotAList>> THEN [ok |-> TRUE, list |-> FALSE, data |-> <<>>]
    ELSE LoadItems(text)

Miss == [hit |-> FALSE, data |-> <<>>]

\* variant: the snapshot is never taken
ReadSnapshotNever(file) == Miss

\* variant: whatever is in the file is returned
ReadSnapshotAnything(file) ==
    IF file.exists THEN [hit |-> TRUE, data |-> JsonLoad(file.text).data] ELSE Miss

\* lines 688-695
ReadSnapshot(file) ==
    IF ~file.exists THEN Miss
    ELSE IF ~file.readable THEN Miss
    ELSE LET r == JsonLoad(file.text)
         IN IF r.ok /\ r.list THEN [hit |-> TRUE, data |-> r.data] ELSE Miss


\* lines 710-714: n units reach the file before the write fails, all of
\* them when n is the length of the document; n = -1 is open() failing
WriteOutcomes(list) == (0 - 1)..Len(JsonDump(list))

WriteSnapshot(file, list, n) ==
    IF n < 0 THEN file
    ELSE [exists |-> TRUE,
          readable |-> IF file.exists THEN file.readable ELSE TRUE,
          text |-> SubSeq(JsonDump(list), 1, n)]

\* what build_site_index found at the path
Before(file) ==
    IF ~file.exists THEN "absent"
    ELSE IF file.readable /\ JsonLoad(file.text).ok /\ JsonLoad(file.text).list THEN "list"
    ELSE "malformed"

\* variant: nothing is returned when the write fails
RebuildLostOnWriteFailure(file, idx, n) ==
    [before |-> Before(file), hit |-> FALSE,
     data |-> IF n = Len(JsonDump(idx)) THEN idx ELSE <<>>,
     file |-> WriteSnapshot(file, idx, n),
     crawls |-> 1, embeds |-> Len(idx), writes |-> 1,
     wrote |-> (n = Len(JsonDump(idx)))]

\* lines 697-716: idx is the list built from the crawled pages
Rebuild(file, idx, n) ==
    [before |-> Before(file), hit |-> FALSE, data |-> idx,
     file |-> WriteSnapshot(file, idx, n),
     crawls |-> 1, embeds |-> Len(idx), writes |-> 1,
     wrote |-> (n = Len(JsonDump(idx)))]

\* the inputs of one run that matter: nothing when the snapshot is taken
BuildChoices(file) ==
    IF ReadSnapshot(file).hit THEN { <<{}, 0>> }
    ELSE UNION { { <<failing, n>> : n \in WriteOutcomes(EmbedPages(CrawlSite, failing)) } :
                 failing \in SUBSET (1..Len(CrawlSite)) }

\* variant: a list taken from the snapshot is written back to the file
BuildSiteIndexWritesBack(file, failing, n) ==
    IF ReadSnapshot(file).hit
    THEN [before |-> Before(file), hit |-> TRUE, data |-> ReadSnapshot(file).data,
          file |-> WriteSnapshot(file, ReadSnapshot(file).data, n),
          crawls |-> 0, embeds |-> 0, writes |-> 1, wrote |-> FALSE]
    ELSE Rebuild(file, EmbedPages(CrawlSite, failing), n)

\* build_site_index: what it returns (data), the file it leaves, and what
\* it did on the way
BuildSiteIndex(file, failing, n) ==
    IF ReadSnapshot(file).hit
    THEN [before |-> Before(file), hit |-> TRUE, data |-> ReadSnapshot(file).data, file |-> file,
          crawls |-> 0, embeds |-> 0, writes |-> 0, wrote |-> FALSE]
    ELSE Rebuild(file, EmbedPages(CrawlSite, failing), n)

LastTwo(s) == IF Len(s) > 2 THEN SubSeq(s, Len(s) - 1, Len(s)) ELSE s
RunOf(b) == [before |-> b.before, hit |-> b.hit, data |-> b.data, crawls |-> b.crawls,
             embeds |-> b.embeds, writes |-> b.writes, wrote |-> b.wrote]

----------------------------------------------------------------------------
(* find_relevant_pages.  A similarity dot / (na * nb) is kept exact as    *)
(* [dot, nn] with nn = (na * nb)^2; 0.0 is [dot |-> 0, nn |-> 1].          *)

RECURSIVE Dot(_, _)
Dot(a, b) == IF a = <<>> \/ b = <<>> THEN 0 ELSE Head(a) * Head(b) + Dot(Tail(a), Tail(b))
NormSq(a) == Dot(a, a)
ZeroSim == [dot |-> 0, nn |-> 1]

\* variant: vectors of different lengths are compared over the common prefix
CosineSimilarityAnyLength(a, b) ==
    IF a = <<>> \/ b = <<>> THEN ZeroSim
    ELSE IF NormSq(a) = 0 \/ NormSq(b) = 0 THEN ZeroSim
    ELSE [dot |-> Dot(a, b), nn |-> NormSq(a) * NormSq(b)]

\* _cosine_similarity
CosineSimilarity(a, b) ==
    IF a = <<>> \/ b = <<>> \/ Len(a) # Len(b) THEN ZeroSim
    ELSE IF NormSq(a) = 0 \/ NormSq(b) = 0 THEN ZeroSim
    ELSE [dot |-> Dot(a, b), nn |-> NormSq(a) * NormSq(b)]

\* s < t for two similarities that are not negative
SimLess(s, t) == s.dot * s.dot * t.nn < t.dot * t.dot * s.nn

\* lines 744-748
RECURSIVE Scored(_, _)
Scored(q_emb, list) ==
    IF list = <<>> THEN <<>>
    ELSE LET sim == CosineSimilarity(q_emb, Head(list).embedding)
         IN (IF sim.dot > 0 THEN <<[sim |-> sim, item |-> Head(list)]>> ELSE <<>>)
            \o Scored(q_emb, Tail(list))

\* variant: an entry goes in front of the entries equal to it
RECURSIVE InsertDescFront(_, _)
InsertDescFront(x, acc) ==
    IF acc = <<>> THEN <<x>>
    ELSE IF ~SimLess(x.sim, Head(acc).sim) THEN <<x>> \o acc
    ELSE <<Head(acc)>> \o InsertDescFront(x, Tail(acc))

\* the place of an entry in a descending stable order: behind the entries
\* that are greater than or equal to it
RECURSIVE InsertDesc(_, _)
InsertDesc(x, acc) ==
    IF acc = <<>> THEN <<x>>
    ELSE IF SimLess(Head(acc).sim, x.sim) THEN <<x>> \o acc
    ELSE <<Head(acc)>> \o InsertDesc(x, Tail(acc))

\* scored.sort(key=lambda x: x[0], reverse=True), line 750
RECURSIVE SortDesc(_, _)
SortDesc(scored, acc) ==
    IF scored = <<>> THEN acc ELSE SortDesc(Tail(scored), InsertDesc(Head(scored), acc))

\* variant: scored[:top_k + 1]
TopKOneMore(s, k) == SubSeq(s, 1, IF k + 1 < Len(s) THEN k + 1 ELSE Len(s))

\* scored[:top_k], top_k >= 0
TopK(s, k) == SubSeq(s, 1, IF k < Len(s) THEN k ELSE Len(s))

\* lines 752-759
Project(s) == [ k \in 1..Len(s) |->
                  [url |-> s[k].item.url, title |-> s[k].item.title, text |-> s[k].item.text] ]

\* variant: the query is taken as it comes
StripNothing(q) == q

\* (query or "").strip()
Strip(q) ==
    IF q = "" \/ q = "  " THEN ""
    ELSE IF q = " pricing " THEN "pricing"
    ELSE q

\* lines 743-759
RankPages(list, q_emb, k) == Project(TopK(SortDesc(Scored(q_emb, list), <<>>), k))

\* lines 736-759: b is what build_site_index gave
FindInIndex(b, rawQuery, k, q_emb) ==
    [called |-> TRUE, query |-> rawQuery, top_k |-> k,
     q_emb |-> IF b.data = <<>> THEN <<>> ELSE q_emb,
     index |-> b.data,
     pages |-> IF b.data = <<>> \/ q_emb = <<>> THEN <<>> ELSE RankPages(b.data, q_emb, k),
     reads |-> 1, crawls |-> b.crawls,
     embeds |-> IF b.data = <<>> THEN b.embeds ELSE b.embeds + 1,
     writes |-> b.writes, wrote |-> b.wrote,
     file |-> b.file]

\* find_relevant_pages: the pages it returns, the snapshot file it leaves
\* and what it did on the way
FindRelevantPages(file, rawQuery, k, failing, n, qFails) ==
    IF Strip(rawQuery) = ""
    THEN [called |-> TRUE, query |-> rawQuery, top_k |-> k, q_emb |-> <<>>,
          index |-> <<>>, pages |-> <<>>,
          reads |-> 0, crawls |-> 0, embeds |-> 0, writes |-> 0, wrote |-> FALSE,
          file |-> file]
    ELSE FindInIndex(BuildSiteIndex(file, failing, n), rawQuery, k,
                     EmbedText(Strip(rawQuery), qFails))


----------------------------------------------------------------------------
(* build_site_index and find_relevant_pages called one after the other *)

MaxIndexPages == 2  \* largest MAX_PAGES_PER_SITE of an indexed site

Unreachable == [p \in SitePaths |-> ErrorResponse]
HubSite == [p \in SitePaths |-> IF p = 0 THEN Html("Hub", "body", HubLinks)
                                ELSE Html("", "body", <<>>)]
BrokenSite == [p \in SitePaths |-> IF p = 0 THEN Html("Broken", "body", BrokenLinks)
                                   ELSE Html("", "body", <<>>)]
IndexSites == { Unreachable, HubSite, BrokenSite }

File(text) == [exists |-> TRUE, readable |-> TRUE, text |-> text]
StoredRecord(path, v) ==
    [url |-> [netloc |-> SiteHost, path |-> path, frag |-> FALSE], title |-> "Stored",
     text |-> "body", embedding |-> v]

\* files that are there but hold no list: not to be opened, empty, cut
\* short before the closing bracket, a JSON object
MalformedSnapshots ==
    { [exists |-> TRUE, readable |-> FALSE, text |-> <<>>],
      File(<<>>),
      File(<<HeadUnit(StoredRecord(0, <<1, 0>>)), TailUnit(<<1, 0>>)>>),
      File(<<NotAList>>) }

\* vectors found in stored records: none, zero, two parallel ones, two
\* more directions, one of another length
RankVectors == { <<>>, <<0, 0>>, <<1, 0>>, <<2, 0>>, <<1, 1>>, <<0 - 1, 1>>, <<1, 0, 0>> }
RankLists ==
    UNION { { [ k \in 1..n |-> StoredRecord(k - 1, vs[k]) ] : vs \in [1..n -> RankVectors] } :
            n \in 1..MaxIndex }
Queries == { "", "  ", " pricing ", "contact", "careers" }

CrawlerIdle ==
    /\ crawlPc = "idle"
    /\ visited = {}
    /\ to_visit = <<>>
    /\ pages = <<>>
    /\ fetched = {}
    /\ fetch_log = <<>>
    /\ enqueued = <<>>

CalendarAtRest ==
    /\ nowUtc = 0
    /\ tzOffset = 0
    /\ calendarId = FALSE
    /\ serviceAccount = FALSE
    /\ items = <<>>
    /\ calPc = "idle"
    /\ days = 0
    /\ now_tz = 0
    /\ busy_events = <<>>
    /\ free_windows = <<>>
    /\ avail_text = NoText
    /\ gcal_requests = <<>>

InitIndex ==
    /\ snapshot \in {NoFile} \cup MalformedSnapshots
                    \cup { File(JsonDump(<<>>)), File(JsonDump(<<StoredRecord(0, <<1, 0>>)>>)) }
    /\ site \in IndexSites
    /\ max_pages \in 1..MaxIndexPages
    /\ runs = <<>>
    /\ found = NoFind
    /\ WorkersAtRest
    /\ CrawlerIdle
    /\ CalendarAtRest

\* one call of build_site_index
BuildSiteIndexCall(failing, n) ==
    /\ LET b == BuildSiteIndex(snapshot, failing, n)
       IN /\ snapshot' = b.file
          /\ runs' = LastTwo(Append(runs, RunOf(b)))
    /\ UNCHANGED <<found, idxPc, observed, index, woff, returned, built>>
    /\ UNCHANGED calVars
    /\ UNCHANGED crawlVars

NextIndex == \E c \in BuildChoices(snapshot) : BuildSiteIndexCall(c[1], c[2])

SpecIndex == InitIndex /\ [][NextIndex]_vars

InitRank ==
    /\ \/ /\ snapshot \in { File(JsonDump(list)) : list \in RankLists }
          /\ site = Unreachable
          /\ max_pages = 1
       \/ /\ snapshot \in { NoFile, File(JsonDump(<<>>)) }
          /\ site \in { Unreachable, HubSite }
          /\ max_pages \in 1..MaxIndexPages
    /\ runs = <<>>
    /\ found = NoFind
    /\ WorkersAtRest
    /\ CrawlerIdle
    /\ CalendarAtRest

\* one call of find_relevant_pages
FindRelevantPagesCall(rawQuery, k, failing, n, qFails) ==
    /\ ~found.called
    /\ found' = FindRelevantPages(snapshot, rawQuery, k, failing, n, qFails)
    /\ snapshot' = found'.file
    /\ UNCHANGED <<runs, idxPc, observed, index, woff, returned, built>>
    /\ UNCHANGED calVars
    /\ UNCHANGED crawlVars

\* the caller has used the pages; the next request starts afresh
FindReturn ==
    /\ found.called
    /\ found' = NoFind
    /\ UNCHANGED <<snapshot, runs, idxPc, observed, index, woff, returned, built>>
    /\ UNCHANGED calVars
    /\ UNCHANGED crawlVars

NextRank ==
    \/ \E rawQuery \in Queries, k \in 0..MaxTopK :
         \E qFails \in (IF Strip(rawQuery) = "" THEN {FALSE} ELSE BOOLEAN),
            c \in (IF Strip(rawQuery) = "" THEN { <<{}, 0>> } ELSE BuildChoices(snapshot)) :
             FindRelevantPagesCall(rawQuery, k, c[1], c[2], qFails)
    \/ FindReturn

SpecRank == InitRank /\ [][NextRank]_vars

\* calls of build_site_index and of find_relevant_pages in any order, on a
\* path with no file, with a file that cannot be read, or with a snapshot of
\* the empty list
CallQueries == { "", "contact" }
InitCalls ==
    /\ snapshot \in { NoFile, [exists |-> TRUE, readable |-> FALSE, text |-> <<>>],
                       File(JsonDump(<<>>)) }
    /\ site \in { Unreachable, HubSite }
    /\ max_pages = 1
    /\ runs = <<>>
    /\ found = NoFind
    /\ WorkersAtRest
    /\ CrawlerIdle
    /\ CalendarAtRest

NextCalls ==
    \/ \E c \in BuildChoices(snapshot) : ~found.called /\ BuildSiteIndexCall(c[1], c[2])
    \/ \E rawQuery \in CallQueries, k \in { MaxTopK } :
         \E qFails \in (IF Strip(rawQuery) = "" THEN {FALSE} ELSE BOOLEAN),
            c \in (IF Strip(rawQuery) = "" THEN { <<{}, 0>> } ELSE BuildChoices(snapshot)) :
             FindRelevantPagesCall(rawQuery, k, c[1], c[2], qFails)
    \/ FindReturn

SpecCalls == InitCalls /\ [][NextCalls]_vars


----------------------------------------------------------------------------
(* build_site_index in several worker processes.  The handler of /chat    *)
(* never awaits inside a call, so two runs overlap only across processes; *)
(* each has its own open file and file position.  open(..., "w")          *)
(* truncates the file, json.dump reaches the file unit by unit at the     *)
(* writer's own position.  Failing writes are left to SpecIndex.          *)

\* bytes a file gets when it is written behind its end
GapUnit == [tok |-> "gap"]

TitledSite == [p \in SitePaths |-> IF p = 0 THEN Html("Hub", "body", HubLinks)
                                   ELSE Html("Back", "body", BackLinks)]

InitRace ==
    /\ snapshot \in { NoFile, File(<<NotAList>>) }
    /\ site \in { Unreachable, TitledSite }
    /\ max_pages \in 1..MaxIndexPages
    /\ runs = <<>>
    /\ found = NoFind
    /\ WorkersAtRest
    /\ CrawlerIdle
    /\ CalendarAtRest

\* lines 687-708: the snapshot is returned, or the index is built
RunStart(p, failing) ==
    /\ idxPc[p] = "idle"
    /\ observed' = [observed EXCEPT ![p] = Before(snapshot)]
    /\ IF ReadSnapshot(snapshot).hit
       THEN /\ idxPc' = [idxPc EXCEPT ![p] = "taken"]
            /\ returned' = [returned EXCEPT ![p] = ReadSnapshot(snapshot).data]
            /\ UNCHANGED <<index, built>>
       ELSE /\ idxPc' = [idxPc EXCEPT ![p] = "open"]
            /\ index' = [index EXCEPT ![p] = EmbedPages(CrawlSite, failing)]
            /\ built' = built \cup { EmbedPages(CrawlSite, failing) }
            /\ UNCHANGED returned
    /\ UNCHANGED <<snapshot, runs, found, woff>>
    /\ UNCHANGED calVars
    /\ UNCHANGED crawlVars

\* line 711
OpenSnapshot(p) ==
    /\ idxPc[p] = "open"
    /\ snapshot' = [exists |-> TRUE,
                    readable |-> IF snapshot.exists THEN snapshot.readable ELSE TRUE,
                    text |-> <<>>]
    /\ woff' = [woff EXCEPT ![p] = 0]
    /\ idxPc' = [idxPc EXCEPT ![p] = "write"]
    /\ UNCHANGED <<runs, found, observed, index, returned, built>>
    /\ UNCHANGED calVars
    /\ UNCHANGED crawlVars

\* the text after unit u is written at position pos (from 0)
WriteAt(text, pos, u) ==
    [ k \in 1..(IF pos + 1 > Len(text) THEN pos + 1 ELSE Len(text)) |->
        IF k = pos + 1 THEN u
        ELSE IF k <= Len(text) THEN text[k]
        ELSE GapUnit ]

\* lines 712-716: the next unit of the document; after the last one the
\* file is closed and the run returns its index
WriteUnit(p) ==
    /\ idxPc[p] = "write"
    /\ snapshot' = [snapshot EXCEPT
                      !.text = WriteAt(@, woff[p], JsonDump(index[p])[woff[p] + 1])]
    /\ woff' = [woff EXCEPT ![p] = @ + 1]
    /\ IF woff[p] + 1 = Len(JsonDump(index[p]))
       THEN /\ idxPc' = [idxPc EXCEPT ![p] = "built"]
            /\ returned' = [returned EXCEPT ![p] = index[p]]
       ELSE UNCHANGED <<idxPc, returned>>
    /\ UNCHANGED <<runs, found, observed, index, built>>
    /\ UNCHANGED calVars
    /\ UNCHANGED crawlVars

\* the caller has the list; the process takes the next request
RunEnd(p) ==
    /\ idxPc[p] \in {"taken", "built"}
    /\ idxPc' = [idxPc EXCEPT ![p] = "idle"]
    /\ observed' = [observed EXCEPT ![p] = "nothing"]
    /\ index' = [index EXCEPT ![p] = <<>>]
    /\ woff' = [woff EXCEPT ![p] = 0]
    /\ returned' = [returned EXCEPT ![p] = <<>>]
    /\ UNCHANGED <<snapshot, runs, found, built>>
    /\ UNCHANGED calVars
    /\ UNCHANGED crawlVars

NextRace ==
    \E p \in Procs :
        \/ \E failing \in SUBSET (1..Len(CrawlSite)) : RunStart(p, failing)
        \/ OpenSnapshot(p)
        \/ WriteUnit(p)
        \/ RunEnd(p)

SpecRace == InitRace /\ [][NextRace]_vars
----------------------------------------------------------------------------
(* Properties of the availability engine *)

Done == calPc = "done"
WinIdx == 1..Len(free_windows)
BusyIdx == 1..Len(busy_events)
Today == DateOf(now_tz)

\* the spec's overlap test between [s, e) and a delivered busy interval
BusyOverlaps(s, e) ==
    \E j \in BusyIdx : busy_events[j].start < e /\ s < busy_events[j].end

\* C1: no returned free window [s, e) overlaps a busy interval [bs, be),
\* bs < be, that the calendar reader delivered: never bs < e and s < be.
C1_NoWindowOverlapsBusy ==
    Done =>
        \A k \in WinIdx, j \in BusyIdx :
            LET w == free_windows[k]
                b == busy_events[j]
            IN b.start < b.end => ~(b.start < w.end /\ w.start < b.end)

\* two overlapping busy intervals delivered out of order, a third nested
\* interval or a day-spanning one, and windows around them
C1_Witness ==
    /\ Done
    /\ Len(free_windows) >= 2
    /\ Len(busy_events) >= 2
    /\ busy_events[1].start > busy_events[2].start
    /\ busy_events[1].start < busy_events[2].end
    /\ busy_events[1].end > DayStartOf(Today)
    /\ busy_events[2].start < DayEndOf(Today)

\* The business-hours span of a date as the claims state it: 09:00-17:00,
\* cut at "now" when now is later than 09:00 of that date.
SpanStart(day) ==
    LET nine == day * 1440 + 9 * 60
    IN IF now_tz > nine THEN now_tz ELSE nine
SpanEnd(day) == day * 1440 + 17 * 60

CallDates == { Today + i : i \in 0..(days - 1) }
OpenDates == { d \in CallDates : SpanEnd(d) > now_tz }

WindowsOn(day) == { <<free_windows[k].start, free_windows[k].end>> :
                       k \in { n \in WinIdx : DateOf(free_windows[n].start) = day } }
CountOn(day) == Cardinality({ n \in WinIdx : DateOf(free_windows[n].start) = day })

\* the instants of a span at which a busy interval starts or ends
SpanPoints(day) ==
    { SpanStart(day), SpanEnd(day) } \cup
    { p \in { busy_events[j].start : j \in BusyIdx } \cup { busy_events[j].end : j \in BusyIdx } :
          SpanStart(day) < p /\ p < SpanEnd(day) }

IsFree(s, e) == s < e /\ ~BusyOverlaps(s, e)

MaximalFree(day) ==
    { pr \in SpanPoints(day) \X SpanPoints(day) :
        /\ IsFree(pr[1], pr[2])
        /\ \A s2, e2 \in SpanPoints(day) :
              (s2 <= pr[1] /\ pr[2] <= e2 /\ IsFree(s2, e2)) => (s2 = pr[1] /\ e2 = pr[2]) }

\* every stretch between two neighbouring points of the span lies in a free
\* window or in a busy interval
SpanCovered(day) ==
    \A p, q \in SpanPoints(day) :
        (p < q /\ ~(\E r \in SpanPoints(day) : p < r /\ r < q)) =>
            \/ \E w \in WindowsOn(day) : w[1] <= p /\ q <= w[2]
            \/ \E j \in BusyIdx : busy_events[j].start <= p /\ q <= busy_events[j].end

\* C2: on every day that is not skipped the free windows are exactly the
\* maximal sub-intervals of the (now-clipped) business-hours span that no
\* busy interval overlaps, and windows and busy intervals together cover
\* the span; busy 10-11 and 13-14 give 09-10, 11-13, 14-17; no busy
\* interval gives the one window [dayStart, dayEnd).
C2_WindowsAreMaximalGaps ==
    Done =>
        \A d \in OpenDates :
            /\ WindowsOn(d) = MaximalFree(d)
            /\ CountOn(d) = Cardinality(MaximalFree(d))
            /\ SpanCovered(d)
            /\ (\A j \in BusyIdx : busy_events[j].end <= SpanStart(d) \/ busy_events[j].start >= SpanEnd(d))
                   => WindowsOn(d) = { <<SpanStart(d), SpanEnd(d)>> }

\* the scenario of the spec: busy 10:00-11:00 and 13:00-14:00, delivered in
\* either order, on a full 09:00-17:00 day
C2_Witness ==
    /\ Done
    /\ days = 1
    /\ now_tz < 9 * 60
    /\ { <<busy_events[j].start, busy_events[j].end>> : j \in BusyIdx }
          = { <<10 * 60, 11 * 60>>, <<13 * 60, 14 * 60>> }
    /\ free_windows = << [start |-> 9 * 60, end |-> 10 * 60],
                         [start |-> 11 * 60, end |-> 13 * 60],
                         [start |-> 14 * 60, end |-> 17 * 60] >>

\* C3: no window starts before now; a day whose business hours ended at or
\* before now has no window; with now = 16:30, days = 1 the result is at
\* most the single window [16:30, 17:00).
C3_NoWindowBeforeNow ==
    Done =>
        /\ \A k \in WinIdx : free_windows[k].start >= now_tz
        /\ \A d \in CallDates : SpanEnd(d) <= now_tz => WindowsOn(d) = {}
        /\ (MinuteOfDay(now_tz) = 16 * 60 + 30 /\ days = 1) =>
               \/ free_windows = <<>>
               \/ free_windows = << [start |-> now_tz, end |-> SpanEnd(Today)] >>

C3_Witness ==
    /\ Done
    /\ days = 1
    /\ now_tz = 16 * 60 + 30
    /\ Len(busy_events) > 0
    /\ free_windows = << [start |-> 16 * 60 + 30, end |-> 17 * 60] >>

\* C4: every window lies inside the 09:00-17:00 span of one date among the
\* "days" consecutive dates starting today; days = 0 gives no window.
C4_WindowsInsideBusinessHours ==
    Done =>
        /\ \A k \in WinIdx :
              LET w == free_windows[k]
                  d == DateOf(w.start)
              IN /\ d \in CallDates
                 /\ d * 1440 + 9 * 60 <= w.start
                 /\ w.end <= d * 1440 + 17 * 60
                 /\ DateOf(w.end) = d
        /\ days = 0 => free_windows = <<>>

\* a window on the second day, with a busy interval that spans midnight
C4_Witness ==
    /\ Done
    /\ days = 2
    /\ \E j \in BusyIdx : DateOf(busy_events[j].start) < DateOf(busy_events[j].end)
    /\ \E k \in WinIdx : DateOf(free_windows[k].start) = Today + 1
    /\ \E k \in WinIdx : DateOf(free_windows[k].start) = Today

\* C5: the result is in ascending order of start time, strictly.
C5_AscendingStarts ==
    Done =>
        \A k \in WinIdx : k < Len(free_windows) =>
            free_windows[k].start < free_windows[k + 1].start

\* busy intervals delivered in descending order of start, three windows
C5_Witness ==
    /\ Done
    /\ Len(busy_events) >= 2
    /\ busy_events[1].start > busy_events[2].start
    /\ Len(free_windows) >= 3

ItemIdx == 1..Len(items)
IsNaive(ts) == ts.form = "datetime" /\ ~ts.hasZone
IsOffset(ts) == ts.form = "datetime" /\ ts.hasZone
IsDate(ts) == ts.form = "date"

\* C6 as stated: a zone-less timestamp keeps its wall clock in the
\* business timezone; one with an offset keeps its instant.
C6_NaiveIsBusinessTime ==
    Done =>
        \A k \in BusyIdx, j \in ItemIdx :
            LET b == busy_events[k]
                it == items[j]
            IN it.summary = b.summary =>
                /\ (IsNaive(it.start) \/ IsDate(it.start)) => b.start = it.start.wall
                /\ (IsNaive(it.end) \/ IsDate(it.end)) => b.end = it.end.wall
                /\ IsOffset(it.start) => b.start - tzOffset = it.start.wall - it.start.zone
                /\ IsOffset(it.end) => b.end - tzOffset = it.end.wall - it.end.zone

\* C6 amended: a date-only value is midnight in the business timezone; a
\* zone-less dateTime is read as UTC and converted, so its wall clock moves
\* by the zone's UTC offset; one with an offset keeps its instant.
C6_NaiveDateTimeIsUtc ==
    Done =>
        \A k \in BusyIdx, j \in ItemIdx :
            LET b == busy_events[k]
                it == items[j]
            IN it.summary = b.summary =>
                /\ IsDate(it.start) => (b.start = it.start.wall /\ b.end = it.end.wall)
                /\ IsNaive(it.start) => b.start = it.start.wall + tzOffset
                /\ IsNaive(it.end) => b.end = it.end.wall + tzOffset
                /\ IsOffset(it.start) => b.start - tzOffset = it.start.wall - it.start.zone
                /\ IsOffset(it.end) => b.end - tzOffset = it.end.wall - it.end.zone

\* a zone-less 10:00 delivered to a business at UTC+2 comes out as 12:00,
\* next to an all-day event
C6_Witness ==
    /\ Done
    /\ tzOffset = Sofia
    /\ Len(busy_events) = 2
    /\ \E j \in ItemIdx : IsNaive(items[j].start) /\ items[j].start.wall = 10 * 60
    /\ \E k \in BusyIdx : busy_events[k].summary = "naive 10-11" /\ busy_events[k].start = 12 * 60
    /\ \E k \in BusyIdx : busy_events[k].summary = "day0"

Configured == calendarId /\ serviceAccount

\* C7: with no calendar configured get_free_windows_text presents no time
\* range as free.
C7_UnconfiguredOffersNothing ==
    (Done /\ ~Configured) => avail_text.kind # "availability"

----------------------------------------------------------------------------
(* Properties of the crawler *)

CrawlDone == crawlPc = "done"
PageIdx == 1..Len(pages)
RootHost == "vltdatasolutions.com"

\* C8: every URL ever put on the work queue, every URL fetched and every
\* URL of a page record has the root URL's network location.
C8_CrawlStaysOnDomain ==
    /\ \A k \in 1..Len(to_visit) : to_visit[k].netloc = RootHost
    /\ \A k \in 1..Len(enqueued) : enqueued[k].netloc = RootHost
    /\ \A u \in fetched : u.netloc = RootHost
    /\ \A k \in PageIdx : pages[k].url.netloc = RootHost

\* a finished crawl that fetched a page with links to two other hosts and a
\* mailto: link, and went on to a second page
C8_Witness ==
    /\ CrawlDone
    /\ Len(pages) >= 2
    /\ \E u \in fetched :
          /\ site[u.path].kind = "html"
          /\ \E k \in 1..Len(site[u.path].links) :
                site[u.path].links[k].kind = "absolute" /\ site[u.path].links[k].netloc = "partner.example"
    /\ \E u \in fetched :
          /\ site[u.path].kind = "html"
          /\ \E k \in 1..Len(site[u.path].links) :
                site[u.path].links[k].kind = "absolute" /\ site[u.path].links[k].netloc = "www.vltdatasolutions.com"

\* The site as a graph, stated apart from the crawl: the URL a link of a
\* page leads to, and the URLs of the root's host that are not documents.
LinkTarget(u, h) ==
    [netloc |-> IF h.kind = "relative" THEN u.netloc ELSE h.netloc,
     path |-> h.path, frag |-> FALSE]
IsLink(h) == h.kind \in { "relative", "absolute" }
OnSite(u) == u.netloc = RootHost /\ u.path >= 0
Answer(u) == IF u.path \in SitePaths THEN site[u.path] ELSE NonHtmlResponse
ParsesCleanly(u) ==
    /\ Answer(u).kind = "html"
    /\ \A k \in 1..Len(Answer(u).links) : Answer(u).links[k].kind # "malformed"
LinkedFrom(u) ==
    IF ParsesCleanly(u)
    THEN { v \in { LinkTarget(u, Answer(u).links[k]) :
                     k \in { n \in 1..Len(Answer(u).links) : IsLink(Answer(u).links[n]) } } :
             OnSite(v) }
    ELSE {}

RECURSIVE ReachFrom(_, _)
ReachFrom(frontier, seen) ==
    IF frontier = {} THEN seen
    ELSE LET all == seen \cup frontier
         IN ReachFrom((UNION { LinkedFrom(u) : u \in frontier }) \ all, all)

\* reachable from the root by the links of pages that are fetched and
\* parsed without an error
Reachable == ReachFrom({ [netloc |-> RootHost, path |-> 0, frag |-> FALSE] }, {})
ReachableHtml == { u \in Reachable : Answer(u).kind = "html" }
ReachableWithText == { u \in ReachableHtml : Answer(u).text # "" }

NoFailure ==
    \A u \in Reachable : Answer(u).kind # "error" /\ (Answer(u).kind = "html" => ParsesCleanly(u))

RECURSIVE DepthFrom(_, _, _, _)
DepthFrom(u, frontier, seen, n) ==
    IF u \in frontier THEN n
    ELSE IF frontier = {} THEN 0 - 1
    ELSE LET all == seen \cup frontier
         IN DepthFrom(u, (UNION { LinkedFrom(v) : v \in frontier }) \ all, all, n + 1)

\* number of links on a shortest path from the root
Depth(u) == DepthFrom(u, { [netloc |-> RootHost, path |-> 0, frag |-> FALSE] }, {}, 0)

PageUrls == { pages[k].url : k \in PageIdx }
DistinctUrls == \A j, k \in PageIdx : pages[j].url = pages[k].url => j = k
BreadthFirst == \A j, k \in PageIdx : j < k => Depth(pages[j].url) <= Depth(pages[k].url)
\* the records follow the order in which their URLs were put on the queue
DiscoveryOrder ==
    \A j, k \in PageIdx : j < k =>
        \E a, b \in 1..Len(enqueued) :
            a < b /\ enqueued[a] = pages[j].url /\ enqueued[b] = pages[k].url

UnderCap == CrawlDone /\ NoFailure /\ Cardinality(ReachableHtml) <= max_pages

FetchOrParseFails(u) ==
    \/ Answer(u).kind = "error"
    \/ /\ Answer(u).kind = "html"
       /\ \E k \in 1..Len(Answer(u).links) : Answer(u).links[k].kind = "malformed"

\* C11: a URL whose fetch or parse fails at any step contributes no page
\* record, and the crawl goes on with the URLs still in the queue (it ends
\* only with an empty queue or a full result).
C11_FailedUrlHasNoRecord ==
    /\ \A u \in fetched : FetchOrParseFails(u) => u \notin PageUrls
    /\ CrawlDone => (to_visit = <<>> \/ Len(pages) >= max_pages)

----------------------------------------------------------------------------
(* Requests to the Calendar API and their failure *)

ReqIdx == 1..Len(gcal_requests)
OnlyListRequests == \A k \in ReqIdx : gcal_requests[k].method = "list"
\* the request asks for the events from now to now + days
CoversHorizon(r) ==
    /\ r.timeMin = now_tz - tzOffset
    /\ r.timeMax = now_tz - tzOffset + days * 1440

\* C19 as stated: one call sends exactly one list request, for the whole
\* horizon [now, now + days], and no write request.
C19_ExactlyOneListRequest ==
    Done =>
        /\ Len(gcal_requests) = 1
        /\ OnlyListRequests
        /\ \A k \in ReqIdx : CoversHorizon(gcal_requests[k])

\* C19 amended: one call sends at most one request and never a write; with
\* the calendar configured it sends exactly one list request, for the whole
\* horizon [now, now + days]; with the calendar not configured it sends none.
C19_OneListRequestWhenConfigured ==
    Done =>
        /\ Len(gcal_requests) <= 1
        /\ OnlyListRequests
        /\ \A k \in ReqIdx : CoversHorizon(gcal_requests[k])
        /\ Configured => Len(gcal_requests) = 1
        /\ ~Configured => gcal_requests = <<>>

\* a call over several days that sent a single request for all of them
C19_Witness ==
    /\ Done
    /\ Configured
    /\ days >= 2
    /\ Len(gcal_requests) = 1
    /\ gcal_requests[1].timeMax - gcal_requests[1].timeMin = days * 1440
    /\ Len(free_windows) >= 2

ListFailed == Configured /\ \E k \in ReqIdx : gcal_requests[k].raised

\* C20: when the list request raises, the call still returns normally and
\* its result is the one of a calendar with no events: no busy interval,
\* for every date of the horizon whose business hours are not over exactly
\* the one window from max(now, 09:00) to 17:00, and the text made of them.
C20_ListFailureMeansNoEvents ==
    (Done /\ ListFailed) =>
        /\ busy_events = <<>>
        /\ \A d \in OpenDates : WindowsOn(d) = { <<SpanStart(d), SpanEnd(d)>> }
        /\ Len(free_windows) = Cardinality(OpenDates)
        /\ \A k \in WinIdx : DateOf(free_windows[k].start) \in OpenDates
        /\ avail_text.kind = (IF OpenDates = {} THEN "no free windows" ELSE "availability")
        /\ Len(avail_text.lines) = Cardinality(OpenDates)

\* the request failed on a calendar whose events would have taken time out
\* of the business hours
C20_Witness ==
    /\ Done
    /\ ListFailed
    /\ days >= 1
    /\ OpenDates # {}
    /\ \E k \in ItemIdx : EventConverts(items[k])
    /\ Len(ComputeFreeWindows(days, now_tz, ConvertItems(items, tzOffset))) > Len(free_windows)
    /\ avail_text.kind = "availability"

----------------------------------------------------------------------------
(* Properties of find_relevant_pages *)

FoundIdx == 1..Len(found.index)
ResultIdx == 1..Len(found.pages)
VecOf(i) == found.index[i].embedding

\* the cosine similarity of record i to the query vector is greater than 0
SimPositive(i) ==
    /\ found.q_emb # <<>>
    /\ VecOf(i) # <<>>
    /\ Len(VecOf(i)) = Len(found.q_emb)
    /\ NormSq(found.q_emb) # 0
    /\ NormSq(VecOf(i)) # 0
    /\ Dot(found.q_emb, VecOf(i)) > 0

Candidates == { i \in FoundIdx : SimPositive(i) }

\* sim(i) >= sim(j) and sim(i) = sim(j) for two candidates: with positive
\* dot products, dot_i / |v_i| >= dot_j / |v_j| compares the squares
SimGeq(i, j) ==
    Dot(found.q_emb, VecOf(i)) * Dot(found.q_emb, VecOf(i)) * NormSq(VecOf(j))
        >= Dot(found.q_emb, VecOf(j)) * Dot(found.q_emb, VecOf(j)) * NormSq(VecOf(i))
SimEq(i, j) == SimGeq(i, j) /\ SimGeq(j, i)

\* i comes before j in the ranking
RanksBefore(i, j) == (SimGeq(i, j) /\ ~SimEq(i, j)) \/ (SimEq(i, j) /\ i < j)

\* the index position of the a-th returned page
PosOf(a) == CHOOSE i \in FoundIdx : found.index[i].url = found.pages[a].url
Returned == { PosOf(a) : a \in ResultIdx }
IndexUrlsDistinct ==
    \A i, j \in FoundIdx : found.index[i].url = found.index[j].url => i = j

\* C14: the result is determined by the index and the query vector: its
\* pages are candidates in non-increasing order of similarity, candidates
\* of equal similarity in index order, and no candidate left out ranks
\* before a returned one.
C14_RankingIsStableDescending ==
    found.called =>
        /\ \A a \in ResultIdx : \E i \in Candidates : found.index[i].url = found.pages[a].url
        /\ \A a, b \in ResultIdx : a < b => RanksBefore(PosOf(a), PosOf(b))
        /\ \A a \in ResultIdx : \A c \in Candidates \ Returned : RanksBefore(PosOf(a), c)

\* three pages returned: the sort moved a page up past an earlier record and
\* kept two pages of equal similarity in index order
C14_Witness ==
    /\ found.called
    /\ IndexUrlsDistinct
    /\ Len(found.pages) = 3
    /\ \E a, b \in ResultIdx : a < b /\ PosOf(a) > PosOf(b)
    /\ \E a, b \in ResultIdx : a < b /\ SimEq(PosOf(a), PosOf(b)) /\ VecOf(PosOf(a)) # VecOf(PosOf(b))

\* C15: no returned page has a similarity that is not greater than 0: a
\* record with an empty vector, a zero-norm vector, a vector of another
\* length than the query vector, or a zero or negative dot product is never
\* returned, whatever top_k.
C15_OnlyPositiveSimilarity ==
    found.called =>
        \A a \in ResultIdx :
            \E i \in FoundIdx :
                /\ found.index[i].url = found.pages[a].url
                /\ VecOf(i) # <<>>
                /\ NormSq(VecOf(i)) # 0
                /\ Len(VecOf(i)) = Len(found.q_emb)
                /\ Dot(found.q_emb, VecOf(i)) > 0

\* top_k takes in the whole index, one record is returned, one is left out
\* for its length and one for its dot product
C15_Witness ==
    /\ found.called
    /\ IndexUrlsDistinct
    /\ found.top_k >= Len(found.index)
    /\ Len(found.pages) = 1
    /\ \E i \in FoundIdx \ Returned : VecOf(i) # <<>> /\ Len(VecOf(i)) # Len(found.q_emb)
    /\ \E i \in FoundIdx \ Returned :
          /\ Len(VecOf(i)) = Len(found.q_emb)
          /\ NormSq(VecOf(i)) # 0
          /\ Dot(found.q_emb, VecOf(i)) <= 0

\* C16: the result has exactly min(top_k, number of candidates) entries, the
\* first ones of the ranking, and an entry has the fields url, title and
\* text only.
C16_FirstTopK ==
    found.called =>
        /\ Len(found.pages) = (IF found.top_k < Cardinality(Candidates)
                               THEN found.top_k ELSE Cardinality(Candidates))
        /\ found.top_k = 0 => found.pages = <<>>
        /\ \A a \in ResultIdx :
              /\ DOMAIN found.pages[a] = {"url", "title", "text"}
              /\ \E i \in Candidates :
                    /\ found.pages[a].url = found.index[i].url
                    /\ found.pages[a].title = found.index[i].title
                    /\ found.pages[a].text = found.index[i].text
                    /\ Cardinality({ c \in Candidates : RanksBefore(c, i) }) = a - 1

\* more candidates than top_k: the ranking is cut
C16_Witness ==
    /\ found.called
    /\ IndexUrlsDistinct
    /\ found.top_k >= 1
    /\ Cardinality(Candidates) > found.top_k
    /\ Len(found.pages) = found.top_k

\* C17: a call with an empty or whitespace-only query returns an empty list
\* and has not looked for, read or written the snapshot, not crawled and not
\* called the embedding client.
C17_BlankQueryTouchesNothing ==
    (found.called /\ found.query \in {"", "  "}) =>
        /\ found.pages = <<>>
        /\ found.reads = 0
        /\ found.crawls = 0
        /\ found.embeds = 0
        /\ found.writes = 0
        /\ found.file = snapshot

\* a whitespace-only query on a reachable site with no snapshot: a query
\* with text would have crawled and written
C17_Witness ==
    /\ found.called
    /\ found.query = "  "
    /\ found.top_k >= 1
    /\ ~snapshot.exists
    /\ site = HubSite

----------------------------------------------------------------------------
(* Properties of build_site_index *)

RunIdx == 1..Len(runs)
LastRun == runs[Len(runs)]
NoWork(r) == r.crawls = 0 /\ r.embeds = 0 /\ r.writes = 0
TwoRuns == Len(runs) = 2

\* C12 as stated: of two calls in a row the second does no crawl, no
\* embedding and no write and returns the data of the first, the crawl runs
\* at most once in both; a call that finds a list snapshot does no work.
C12_SecondCallDoesNoWork ==
    /\ \A k \in RunIdx : runs[k].hit => NoWork(runs[k])
    /\ TwoRuns =>
          /\ runs[1].crawls + runs[2].crawls <= 1
          /\ NoWork(runs[2])
          /\ runs[2].data = runs[1].data

\* the first of two calls found a list snapshot, or wrote one in full to a
\* file that can be read
FirstLeftSnapshot == runs[1].hit \/ (runs[1].wrote /\ snapshot.readable)

\* C12 amended: when the first call found a valid list snapshot, or built
\* the index and its write of the snapshot succeeded on a readable file, the
\* second call does no crawl, no embedding and no write and returns the data
\* of the first; when the first call's write failed the second call builds
\* again; a call that finds a list snapshot does no work.
C12_SecondCallReusesWrittenSnapshot ==
    /\ \A k \in RunIdx : runs[k].hit => NoWork(runs[k])
    /\ (TwoRuns /\ FirstLeftSnapshot) =>
          /\ runs[1].crawls + runs[2].crawls <= 1
          /\ runs[2].hit
          /\ NoWork(runs[2])
          /\ runs[2].data = runs[1].data
    /\ (TwoRuns /\ ~FirstLeftSnapshot) => (~runs[2].hit /\ runs[2].crawls = 1)

\* the first call built an index of two pages, one of them with a failed
\* embedding, and wrote it; the second call took it from the file
C12_Witness ==
    /\ TwoRuns
    /\ ~runs[1].hit
    /\ runs[1].crawls = 1
    /\ runs[1].wrote
    /\ Len(runs[1].data) = 2
    /\ runs[1].data[1].embedding = <<>>
    /\ runs[1].data[2].embedding # <<>>
    /\ runs[2].hit
    /\ runs[2].data = runs[1].data

\* the file is there, can be read and parses as a list
HoldsList(file) ==
    file.exists /\ file.readable /\ JsonLoad(file.text).ok /\ JsonLoad(file.text).list

\* the list a rebuild returns has one record for each crawled page
BuiltFromCrawl(r) ==
    /\ Len(r.data) = Len(CrawlSite)
    /\ \A k \in 1..Len(r.data) : r.data[k].url = CrawlSite[k].url /\ r.data[k].title = CrawlSite[k].title

\* C13 as stated: a run that finds a malformed snapshot crawls and embeds
\* afresh, returns the rebuilt list and leaves it in the snapshot file.
C13_MalformedSnapshotOverwritten ==
    (runs # <<>> /\ LastRun.before = "malformed") =>
        /\ ~LastRun.hit
        /\ LastRun.crawls = 1
        /\ LastRun.embeds = Len(LastRun.data)
        /\ BuiltFromCrawl(LastRun)
        /\ snapshot.text = JsonDump(LastRun.data)

\* C13 amended: a run that finds a malformed snapshot crawls and embeds
\* afresh, returns the rebuilt list and tries to write it: the snapshot file
\* holds the rebuilt list when the write succeeds, and holds no list when
\* the write fails.
C13_MalformedSnapshotRebuilt ==
    (runs # <<>> /\ LastRun.before = "malformed") =>
        /\ ~LastRun.hit
        /\ LastRun.crawls = 1
        /\ LastRun.embeds = Len(LastRun.data)
        /\ LastRun.writes = 1
        /\ BuiltFromCrawl(LastRun)
        /\ LastRun.wrote => snapshot.text = JsonDump(LastRun.data)
        /\ ~LastRun.wrote => ~HoldsList(snapshot)

\* a readable file that held no list; the run replaced it by a list of two
C13_Witness ==
    /\ Len(runs) = 1
    /\ LastRun.before = "malformed"
    /\ LastRun.wrote
    /\ Len(LastRun.data) = 2
    /\ HoldsList(snapshot)
    /\ JsonLoad(snapshot.text).data = LastRun.data

----------------------------------------------------------------------------
(* Properties of concurrent runs of build_site_index *)

\* both runs found no file at the snapshot path, built, and have returned
BothBuilt == \A p \in Procs : idxPc[p] = "built" /\ observed[p] = "absent"

\* C18: after two overlapping runs that both found no snapshot have
\* finished, the snapshot file holds a complete list, the index of one of
\* the two, and a run that takes its result from the snapshot never returns
\* a list that no run built.
C18_RaceLeavesOneIndex ==
    /\ BothBuilt =>
          /\ HoldsList(snapshot)
          /\ \E p \in Procs : JsonLoad(snapshot.text).data = index[p]
    /\ \A p \in Procs : idxPc[p] = "taken" => returned[p] \in built

----------------------------------------------------------------------------
(* C21 and C22: what the crawl does with the URLs it takes off the queue *)

FetchIdx == 1..Len(fetch_log)
\* the response is not HTML, or it is HTML without text
NothingToRecord(u) ==
    \/ Answer(u).kind = "nonhtml"
    \/ Answer(u).kind = "html" /\ Answer(u).text = ""
FetchedOnce(k) == \A j \in FetchIdx : fetch_log[j] = fetch_log[k] => j = k

\* C21: a fetched URL whose response is not HTML, or is HTML with no text,
\* is in the visited set, is fetched only that one time, has no page
\* record and is not counted: the number of records is the number of
\* fetched URLs that answered HTML with text. A finished crawl has an empty
\* queue or has collected max_pages records.
C21_SkippedUrlIsVisitedNotCounted ==
    /\ \A k \in FetchIdx :
          NothingToRecord(fetch_log[k]) =>
              /\ fetch_log[k] \in visited
              /\ FetchedOnce(k)
              /\ fetch_log[k] \notin PageUrls
    /\ Len(pages) = Cardinality({ k \in FetchIdx : ~NothingToRecord(fetch_log[k])
                                                    /\ Answer(fetch_log[k]).kind = "html" })
    /\ CrawlDone => (to_visit = <<>> \/ Len(pages) >= max_pages)

\* a finished crawl that met a response that is not HTML and a page without
\* text, visited more URLs than the cap and still collected max_pages
\* records, leaving URLs on the queue
C21_Witness ==
    /\ CrawlDone
    /\ \E k \in FetchIdx : Answer(fetch_log[k]).kind = "nonhtml"
    /\ \E k \in FetchIdx : Answer(fetch_log[k]).kind = "html" /\ Answer(fetch_log[k]).text = ""
    /\ max_pages > 0
    /\ Len(pages) = max_pages
    /\ Cardinality(visited) > max_pages
    /\ to_visit # <<>>

\* the URLs of the root's host, fragment stripped
SameDomainUrls ==
    { [netloc |-> RootHost, path |-> p, frag |-> FALSE] : p \in SitePaths \cup {PdfPath} }
EnqueuedOnce == \A j, k \in 1..Len(enqueued) : enqueued[j] = enqueued[k] => j = k
CrawlIsBounded ==
    /\ \A k \in FetchIdx : FetchedOnce(k) /\ fetch_log[k] \in SameDomainUrls
    /\ EnqueuedOnce
    /\ Len(fetch_log) <= Cardinality(SameDomainUrls)
    /\ DistinctUrls

\* C22: on every site the crawl ends; no URL is handed to requests.get
\* twice and none is put on the queue twice, every fetched URL is a
\* fragment-stripped URL of the root's host, so the number of fetches is at
\* most the number of such URLs, and the page records have pairwise
\* distinct URLs.
C22_CrawlTerminatesFetchingOnce == []CrawlIsBounded /\ <>CrawlDone

\* a finished crawl of a site whose pages link back to URLs already visited
\* and to URLs already queued, with and without a fragment
C22_Witness ==
    /\ CrawlDone
    /\ Len(fetch_log) >= 3
    /\ Len(pages) >= 2
    /\ \E k \in FetchIdx :
          /\ Answer(fetch_log[k]).kind = "html"
          /\ \E a, b \in 1..Len(Answer(fetch_log[k]).links) :
                /\ Answer(fetch_log[k]).links[a].frag
                /\ Answer(fetch_log[k]).links[a].path = 0
                /\ ~Answer(fetch_log[k]).links[b].frag
                /\ a # b
                /\ Answer(fetch_log[k]).links[a].kind # "empty"
                /\ Answer(fetch_log[k]).links[b].kind = "relative"
                /\ \E c \in 1..Len(Answer(fetch_log[k]).links) :
                      c > b /\ Answer(fetch_log[k]).links[c].frag
                            /\ Answer(fetch_log[k]).links[c].path = Answer(fetch_log[k]).links[b].path

----------------------------------------------------------------------------
(* C25: the windows of one answer against each other *)

SameDay(a, b) == DateOf(free_windows[a].start) = DateOf(free_windows[b].start)
EveryBusyHasLength == \A b \in BusyIdx : busy_events[b].start < busy_events[b].end

\* C25: every returned window has start < end; of two consecutive windows
\* the first ends no later than the second starts; and when every busy
\* interval has start < end, two consecutive windows of one day have a gap
\* of positive length between them.
C25_WindowsNonEmptyAndDisjoint ==
    Done =>
        /\ \A k \in WinIdx : free_windows[k].start < free_windows[k].end
        /\ \A k \in WinIdx : k < Len(free_windows) =>
              free_windows[k].end <= free_windows[k + 1].start
        /\ EveryBusyHasLength =>
              \A k \in WinIdx : (k < Len(free_windows) /\ SameDay(k, k + 1)) =>
                  free_windows[k].end < free_windows[k + 1].start

\* an answer over two days with busy intervals of positive length only: two
\* windows of one day around a busy interval, followed by a window of the
\* next day
C25_Witness ==
    /\ Done
    /\ busy_events # <<>>
    /\ EveryBusyHasLength
    /\ \E k \in WinIdx :
          /\ k + 2 <= Len(free_windows)
          /\ SameDay(k, k + 1)
          /\ ~SameDay(k + 1, k + 2)
          /\ \E b \in BusyIdx : /\ busy_events[b].start = free_windows[k].end
                                /\ busy_events[b].end = free_windows[k + 1].start

\* a busy interval of no length splits the day into two windows that touch
TouchingWindows ==
    /\ Done
    /\ \E k \in WinIdx : /\ k < Len(free_windows)
                         /\ SameDay(k, k + 1)
                         /\ free_windows[k].end = free_windows[k + 1].start

----------------------------------------------------------------------------
(* C24: a run of build_site_index whose write of the snapshot fails *)

WriteFailed(r) == ~r.hit /\ r.writes = 1 /\ ~r.wrote
\* the list is the crawled pages, each with the vector of its text or, when
\* its embedding request failed, with no vector
CompleteIndex(r) ==
    \E failing \in SUBSET (1..Len(CrawlSite)) : r.data = EmbedPages(CrawlSite, failing)

\* C24: a run whose write of the snapshot fails returns the complete index
\* built from the crawl, as a run whose write succeeds does; it leaves the
\* snapshot path without a list that can be loaded, and the call after it
\* crawls and builds again.
C24_WriteFailureStillReturnsIndex ==
    /\ \A k \in RunIdx : ~runs[k].hit => CompleteIndex(runs[k])
    /\ (runs # <<>> /\ WriteFailed(LastRun)) => ~HoldsList(snapshot)
    /\ (TwoRuns /\ WriteFailed(runs[1])) =>
          /\ ~runs[2].hit
          /\ runs[2].crawls = 1
          /\ CompleteIndex(runs[2])

\* the first call built an index of two records and failed to write it; the
\* second call built again and its write succeeded
C24_Witness ==
    /\ TwoRuns
    /\ WriteFailed(runs[1])
    /\ Len(runs[1].data) = 2
    /\ runs[1].data[2].embedding # <<>>
    /\ ~runs[2].hit
    /\ runs[2].wrote
    /\ HoldsList(snapshot)
    /\ JsonLoad(snapshot.text).data = runs[2].data

----------------------------------------------------------------------------
(* C23: the records build_site_index makes of the crawled pages *)

FoundBuilt == found.called /\ found.crawls = 1
\* the embedding requests made for pages: all but the one for the query
PageEmbeds == IF found.index = <<>> THEN found.embeds ELSE found.embeds - 1
OneRecordPerPage ==
    /\ Len(found.index) = Len(CrawlSite)
    /\ \A k \in FoundIdx :
          /\ found.index[k].url = CrawlSite[k].url
          /\ found.index[k].text = CrawlSite[k].text
          /\ VecOf(k) = <<>> \/ VecOf(k) = Embedding(CrawlSite[k].text)
    /\ PageEmbeds = Len(CrawlSite)
\* record k of the list the call built is record k of the list in the file
Persisted(k) ==
    /\ JsonLoad(found.file.text).ok
    /\ JsonLoad(found.file.text).list
    /\ k <= Len(JsonLoad(found.file.text).data)
    /\ JsonLoad(found.file.text).data[k].url = found.index[k].url
    /\ JsonLoad(found.file.text).data[k].text = found.index[k].text
    /\ JsonLoad(found.file.text).data[k].embedding = VecOf(k)
NoVectorNeverReturned ==
    found.called =>
        \A k \in FoundIdx : VecOf(k) = <<>> =>
            \A a \in ResultIdx : found.pages[a].url # found.index[k].url

\* C23 as stated: a call that builds makes one embedding request and one
\* record for each crawled page, in crawl order; a page whose request failed
\* has its record, with an empty vector, in the list returned and in the
\* snapshot file; a record without a vector is never among the pages
\* returned.
C23_EveryPagePersisted ==
    /\ FoundBuilt =>
          /\ OneRecordPerPage
          /\ \A k \in FoundIdx : VecOf(k) = <<>> => Persisted(k)
    /\ NoVectorNeverReturned

\* C23 amended: a call that builds makes one embedding request and one
\* record for each crawled page, in crawl order; a page whose request failed
\* has its record with an empty vector, and when the write of the snapshot
\* succeeds the file holds all the records, those without a vector
\* included; a record without a vector is never among the pages returned.
C23_EveryPageStoredAndWrittenWhenWriteSucceeds ==
    /\ FoundBuilt =>
          /\ OneRecordPerPage
          /\ found.wrote =>
                /\ found.file.text = JsonDump(found.index)
                /\ \A k \in FoundIdx : Persisted(k)
    /\ NoVectorNeverReturned

\* a call that built two records, the first without a vector because its
\* request failed, wrote both to the snapshot and returned the second only
C23_Witness ==
    /\ FoundBuilt
    /\ Len(found.index) = 2
    /\ VecOf(1) = <<>>
    /\ VecOf(2) # <<>>
    /\ found.wrote
    /\ Len(JsonLoad(snapshot.text).data) = 2
    /\ JsonLoad(snapshot.text).data[1].embedding = <<>>
    /\ Len(found.pages) = 1
    /\ found.pages[1].url = found.index[2].url

----------------------------------------------------------------------------
(* C26: the snapshot file over calls that follow one another *)

\* the file holds a complete list document, whether or not it can be read
SnapshotWritten ==
    snapshot.exists /\ JsonLoad(snapshot.text).ok /\ JsonLoad(snapshot.text).list
\* the step is a call of find_relevant_pages with a query that is not blank
FindStep == ~found.called /\ found'.called /\ Strip(found'.query) # ""
NothingFoundNoCrawl == found'.pages = <<>> /\ found'.crawls = 0 /\ found'.writes = 0

\* C26 as stated: once the snapshot file holds a list that build_site_index
\* wrote, no call of build_site_index or find_relevant_pages changes the
\* file; when the list is empty, every later find_relevant_pages returns no
\* page and does not crawl.
C26_WrittenSnapshotNeverChanges ==
    [][ SnapshotWritten =>
            /\ snapshot' = snapshot
            /\ (JsonLoad(snapshot.text).data = <<>> /\ FindStep) => NothingFoundNoCrawl ]_vars

\* C26 amended: once the snapshot file holds a list and can be read back,
\* no call of build_site_index or find_relevant_pages changes the file; when
\* the list is empty, every later find_relevant_pages returns no page and
\* does not crawl.
C26_ReadableSnapshotNeverChanges ==
    [][ HoldsList(snapshot) =>
            /\ snapshot' = snapshot
            /\ (JsonLoad(snapshot.text).data = <<>> /\ FindStep) => NothingFoundNoCrawl ]_vars

\* the site gave no page: a first call of build_site_index crawled, built
\* the empty list and wrote it, a second call took it from the file, and a
\* find_relevant_pages after them returned no page without a crawl
C26_Witness ==
    /\ site = Unreachable
    /\ TwoRuns
    /\ runs[1].crawls = 1
    /\ runs[1].wrote
    /\ runs[1].data = <<>>
    /\ runs[2].hit
    /\ found.called
    /\ Strip(found.query) # ""
    /\ found.crawls = 0
    /\ found.pages = <<>>
    /\ HoldsList(snapshot)
    /\ snapshot.text = JsonDump(<<>>)

====
